---- MODULE Spec2Model ----
(***************************************************************************)
(* A model of srt.py: the Timecode value type, the SubRip document (a list *)
(* of subtitle entries) and the SRT subcommands that read subtitle files,  *)
(* transform them and write them back.                                     *)
(*                                                                         *)
(* Python strings are sequences of one-character strings, so that parsing  *)
(* and formatting are computed character by character as the code does.    *)
(* A Timecode is its millisecond count (the objects are never mutated: all *)
(* arithmetic builds a new Timecode).  A call that can raise returns a     *)
(* record whose exc field names the exception, "none" when it returned.    *)
(*                                                                         *)
(* Python evaluates an expression once and names the value.  Where the     *)
(* value is used several times the model does the same with                *)
(*     The({ e(v) : v \in {x} })                                           *)
(* which is e(x) with x evaluated once.                                    *)
(***************************************************************************)
EXTENDS Integers, Sequences, FiniteSets, TLC

VARIABLES
    time,      \* Timecode: the string last given to the constructor / built by str()
    tc,        \* Timecode: [exc, ms], the outcome of the last Timecode operation
    tcop,      \* Timecode: the last operation; n counts the arithmetic operations
    subs,      \* SubRip: the document, a sequence of entries [index, start, end, text]
    prev,      \* SubRip: the document as it was before the last method call
    call,      \* SubRip: the last method call and its arguments; n counts the calls
    files,     \* SRT: the contents of the subtitle files, one string per file
    old,       \* SRT: the contents of the files before the last subcommand
    cmd,       \* SRT: the subcommand main() dispatched and its options ("none": not yet)
    status,    \* SRT: how main() ended: the exit status and the uncaught exception
    base       \* SRT: merge's local document `base' when it is printed

vars == <<time, tc, tcop, subs, prev, call, files, old, cmd, status, base>>

tcVars  == <<time, tc, tcop>>
subVars == <<subs, prev, call>>
srtVars == <<files, old, cmd, status, base>>

(***************************************************************************)
(* Bounds of the model.                                                    *)
(***************************************************************************)
MaxTimeLen == 14    \* longest constructor string tried, sign excluded
MaxArith   == 2     \* Timecode arithmetic operations per behaviour
MaxCalls   == 2     \* SubRip method calls per behaviour
NumFiles   == 3     \* files named on the command line
MaxMs      == 400000000   \* largest timecode that is scaled, in ms

(***************************************************************************)
(* Python string primitives.                                               *)
(***************************************************************************)
Digits == <<"0", "1", "2", "3", "4", "5", "6", "7", "8", "9">>

IsDigit(c) == \E i \in 1..10 : Digits[i] = c

DigitVal(c) == (CHOOSE i \in 1..10 : Digits[i] = c) - 1

\* the character with code 11, written raw between the quotes
VerticalTab == ""

\* the characters isspace() accepts
Whitespace == {" ", "\t", "\n", "\r", "\f", VerticalTab}

The(S) == CHOOSE x \in S : TRUE

Min(S) == CHOOSE x \in S : \A y \in S : x <= y

Abs(n) == IF n < 0 THEN -n ELSE n

\* str.lstrip() / str.rstrip() / str.strip()
RECURSIVE LStrip(_)
LStrip(s) ==
    IF s # <<>> /\ Head(s) \in Whitespace THEN LStrip(Tail(s)) ELSE s

RECURSIVE RStrip(_)
RStrip(s) ==
    IF s # <<>> /\ s[Len(s)] \in Whitespace
    THEN RStrip(SubSeq(s, 1, Len(s) - 1)) ELSE s

Strip(s) == The({RStrip(l) : l \in {LStrip(s)}})

\* the position of the first occurrence of sep in s, 0 when there is none
Find(s, sep) ==
    LET n == Len(s) - Len(sep) + 1
        At(i) == SubSeq(s, i, i + Len(sep) - 1) = sep
    IN  IF \E i \in 1..n : At(i)
        THEN CHOOSE i \in 1..n : At(i) /\ \A j \in 1..(i - 1) : ~At(j)
        ELSE 0

\* str.split(sep): the pieces between the non-overlapping occurrences of sep,
\* scanned left to right; always at least one piece
RECURSIVE Split(_, _)
Split(s, sep) ==
    The({The({IF i = 0 THEN <<v>>
              ELSE <<SubSeq(v, 1, i - 1)>>
                      \o Split(SubSeq(v, i + Len(sep), Len(v)), sep)
              : i \in {Find(v, sep)}})
         : v \in {s}})

\* sep.join(parts), from the i-th part on
RECURSIVE JoinFrom(_, _, _)
JoinFrom(parts, sep, i) ==
    IF i > Len(parts) THEN <<>>
    ELSE IF i = Len(parts) THEN parts[i]
    ELSE parts[i] \o sep \o JoinFrom(parts, sep, i + 1)

\* sep.join(parts)
Join(parts, sep) == The({JoinFrom(p, sep, 1) : p \in {parts}})

\* with before every character of s, and after the last one
RECURSIVE Interleave(_, _)
Interleave(s, with) ==
    IF s = <<>> THEN with ELSE with \o <<Head(s)>> \o Interleave(Tail(s), with)

\* str.replace(find, with): every non-overlapping occurrence, left to right;
\* the empty string occurs before every character and at the end
RECURSIVE Replace(_, _, _)
Replace(s, find, with) ==
    IF find = <<>> THEN Interleave(s, with) ELSE
    The({The({IF i = 0 THEN v
              ELSE SubSeq(v, 1, i - 1) \o with
                      \o Replace(SubSeq(v, i + Len(find), Len(v)), find, with)
              : i \in {Find(v, find)}})
         : v \in {s}})

\* the value of a non-empty string of decimal digits
RECURSIVE DigitsVal(_)
DigitsVal(s) ==
    IF s = <<>> THEN 0
    ELSE DigitsVal(SubSeq(s, 1, Len(s) - 1)) * 10 + DigitVal(s[Len(s)])

AllDigits(s) == s # <<>> /\ \A i \in 1..Len(s) : IsDigit(s[i])

\* int(s, 10): whitespace, one optional sign, whitespace, one or more digits,
\* whitespace; anything else raises ValueError
PyInt10(s) ==
    The({LET sgn  == IF t # <<>> /\ t[1] = "-" THEN -1 ELSE 1
             body == IF t # <<>> /\ t[1] \in {"-", "+"} THEN LStrip(Tail(t)) ELSE t
         IN  IF AllDigits(body)
             THEN [exc |-> "none", val |-> sgn * DigitsVal(body)]
             ELSE [exc |-> "ValueError", val |-> 0]
         : t \in {Strip(s)}})

\* the decimal digits of a natural number
RECURSIVE ToDigits(_)
ToDigits(n) ==
    IF n < 10 THEN <<Digits[n + 1]>>
    ELSE ToDigits(n \div 10) \o <<Digits[(n % 10) + 1]>>

\* "%0<width>d" % n for n >= 0: zero-padded to at least width characters
RECURSIVE ZeroPad(_, _)
ZeroPad(s, width) == IF Len(s) >= width THEN s ELSE ZeroPad(<<"0">> \o s, width)

FormatD(n, width) == ZeroPad(ToDigits(n), width)

\* "%s" % n for an integer n
FormatInt(n) == IF n < 0 THEN <<"-">> \o ToDigits(-n) ELSE ToDigits(n)

(***************************************************************************)
(* Python floats: binary floating point with 53 significant bits.  A float *)
(* is [neg, mant, exp], the number mant * 2^exp, negated when neg; mant is *)
(* odd, or 0 with exp 0.  (For exp < 0 this is as_integer_ratio() with the  *)
(* numerator mant and the denominator 2^-exp.)  A mantissa does not fit an *)
(* integer of the model: it is the sequence of its digits in base 2^15,    *)
(* lowest digit first, no leading zero digit, no digit at all for 0.       *)
(***************************************************************************)
Base == 32768

RECURSIVE BigOf(_)
BigOf(n) == IF n = 0 THEN <<>> ELSE <<n % Base>> \o BigOf(n \div Base)

RECURSIVE BigToInt(_)
BigToInt(a) == IF a = <<>> THEN 0 ELSE Head(a) + Base * BigToInt(Tail(a))

RECURSIVE BigTrim(_)
BigTrim(a) ==
    IF a # <<>> /\ a[Len(a)] = 0 THEN BigTrim(SubSeq(a, 1, Len(a) - 1)) ELSE a

\* a * k + carry, for 0 <= k < Base and 0 <= carry < Base
RECURSIVE BigTimes(_, _, _)
BigTimes(a, k, carry) ==
    IF a = <<>> THEN BigOf(carry)
    ELSE The({<<v % Base>> \o BigTimes(Tail(a), k, v \div Base)
              : v \in {Head(a) * k + carry}})

\* a + b + carry
RECURSIVE BigPlus(_, _, _)
BigPlus(a, b, carry) ==
    IF a = <<>> /\ b = <<>> THEN BigOf(carry)
    ELSE The({<<v % Base>> \o BigPlus(IF a = <<>> THEN a ELSE Tail(a),
                                      IF b = <<>> THEN b ELSE Tail(b), v \div Base)
              : v \in {(IF a = <<>> THEN 0 ELSE Head(a))
                       + (IF b = <<>> THEN 0 ELSE Head(b)) + carry}})

\* a * b
RECURSIVE BigMul(_, _)
BigMul(a, b) ==
    IF a = <<>> \/ b = <<>> THEN <<>>
    ELSE BigTrim(BigPlus(BigTimes(a, Head(b), 0),
                         IF Tail(b) = <<>> THEN <<>> ELSE <<0>> \o BigMul(a, Tail(b)),
                         0))

\* a < b
RECURSIVE BigLess(_, _)
BigLess(a, b) ==
    IF Len(a) # Len(b) THEN Len(a) < Len(b)
    ELSE IF a = <<>> THEN FALSE
    ELSE IF a[Len(a)] # b[Len(b)] THEN a[Len(a)] < b[Len(b)]
    ELSE BigLess(SubSeq(a, 1, Len(a) - 1), SubSeq(b, 1, Len(b) - 1))

\* the number of binary digits of n >= 0
RECURSIVE BitLen(_)
BitLen(n) == IF n = 0 THEN 0 ELSE 1 + BitLen(n \div 2)

BigBits(a) == IF a = <<>> THEN 0 ELSE 15 * (Len(a) - 1) + BitLen(a[Len(a)])

\* the binary digit of a that counts 2^i
BigBit(a, i) ==
    IF (i \div 15) + 1 > Len(a) THEN 0 ELSE (a[(i \div 15) + 1] \div 2^(i % 15)) % 2

\* a \div 2^n
BigShr(a, n) ==
    The({BigTrim([i \in 1..Len(rest) |->
                     (rest[i] \div 2^r)
                     + (IF i < Len(rest) THEN (rest[i + 1] % 2^r) * 2^(15 - r) ELSE 0)])
         : rest \in {SubSeq(a, (n \div 15) + 1, Len(a))}, r \in {n % 15}})

\* a * 2^n
BigShl(a, n) ==
    IF a = <<>> THEN <<>>
    ELSE [i \in 1..(n \div 15) |-> 0] \o BigTrim(BigTimes(a, 2^(n % 15), 0))

\* the number of zero binary digits at the low end of n > 0
RECURSIVE LowZeros(_)
LowZeros(n) == IF n % 2 = 1 THEN 0 ELSE 1 + LowZeros(n \div 2)

RECURSIVE BigLowZeros(_)
BigLowZeros(a) ==
    IF Head(a) = 0 THEN 15 + BigLowZeros(Tail(a)) ELSE LowZeros(Head(a))

\* the float mant * 2^exp, for mant of at most 53 binary digits
Float(neg, mant, exp) ==
    IF mant = <<>> THEN [neg |-> neg, mant |-> <<>>, exp |-> 0]
    ELSE The({[neg |-> neg, mant |-> BigShr(mant, z), exp |-> exp + z]
              : z \in {BigLowZeros(mant)}})

\* the float nearest to mant * 2^exp; of two nearest floats the one whose
\* 53rd digit is even
RoundFloat(neg, mant, exp) ==
    The({
        IF d <= 0 THEN Float(neg, mant, exp)
        ELSE The({
            IF BigBit(mant, d - 1) = 1
               /\ (BigShl(BigShr(mant, d - 1), d - 1) # mant \/ BigBit(q, 0) = 1)
            THEN Float(neg, BigPlus(q, <<>>, 1), exp + d)
            ELSE Float(neg, q, exp + d)
            : q \in {BigShr(mant, d)}})
    : d \in {BigBits(mant) - 53}})

\* g / t = (g2 / t2) * 2^e with t2 <= g2 < 2 * t2, for g > 0 and t > 0
RECURSIVE Align(_, _, _)
Align(g, t, e) ==
    IF g < t THEN Align(2 * g, t, e - 1)
    ELSE IF g >= 2 * t THEN Align(g, 2 * t, e + 1)
    ELSE [g |-> g, t |-> t, e |-> e]

\* the next k binary digits of rem / t (rem < t), after the digits acc
RECURSIVE DivideBits(_, _, _, _)
DivideBits(rem, t, k, acc) ==
    IF k = 0 THEN [q |-> acc, rem |-> rem]
    ELSE IF 2 * rem >= t THEN DivideBits(2 * rem - t, t, k - 1, 2 * acc + 1)
    ELSE DivideBits(2 * rem, t, k - 1, 2 * acc)

\* the next n digits in base 2^15 of rem / t, and what remains
RECURSIVE DivideLimbs(_, _, _)
DivideLimbs(rem, t, n) ==
    IF n = 0 THEN [limbs |-> <<>>, rem |-> rem]
    ELSE The({The({[limbs |-> lower.limbs \o <<d.q>>, rem |-> lower.rem]
                   : lower \in {DivideLimbs(d.rem, t, n - 1)}})
              : d \in {DivideBits(rem, t, 15, 0)}})

\* float(goal) / float(target) for integers, target # 0: the quotient to 61
\* binary digits and one more digit that tells whether anything remains,
\* rounded to the nearest float
Quotient(goal, target) ==
    IF goal = 0 THEN Float(target < 0, <<>>, 0)
    ELSE The({The({
        RoundFloat((goal < 0) # (target < 0),
                   BigTimes(d.limbs \o <<1>>, 2, IF d.rem = 0 THEN 0 ELSE 1),
                   a.e - 61)
        : d \in {DivideLimbs(a.g - a.t, a.t, 4)}})
        : a \in {Align(Abs(goal), Abs(target), 0)}})

\* n * x for an integer n and a float x: the float nearest to the product
FloatTimes(n, x) ==
    RoundFloat((n < 0) # x.neg, BigMul(BigOf(Abs(n)), x.mant), x.exp)

\* the digits of x before the binary point
WholePart(x) ==
    BigToInt(IF x.exp >= 0 THEN BigShl(x.mant, x.exp) ELSE BigShr(x.mant, -x.exp))

\* a variant that rounds down
FloorOfFloat(x) ==
    IF x.neg /\ x.exp < 0 THEN -(WholePart(x) + 1)
    ELSE IF x.neg THEN -WholePart(x) ELSE WholePart(x)

\* int(x) of a float x: truncation toward zero
PyIntOfFloat(x) == IF x.neg THEN -WholePart(x) ELSE WholePart(x)

(***************************************************************************)
(* class Timecode                                                          *)
(***************************************************************************)
\* a variant that reads a short timestring as seconds: time + ",000"
ShortTimestringAsSeconds(t) == [hours |-> <<"0">>, minutes |-> <<"0">>,
                                seconds |-> t \o <<",", "0", "0", "0">>]

\* the three fields of a timestring of 1 to 3 characters: "0," + time
ShortTimestring(t) == [hours |-> <<"0">>, minutes |-> <<"0">>,
                       seconds |-> <<"0", ",">> \o t]

\* the branch on the length of the timestring, sign already stripped:
\* the hours, minutes and seconds(,milliseconds) substrings
TimeFields(t) ==
    The({
    LET length == Len(t)
        unpack == [exc |-> "ValueError"]
    IN  IF length = 12 THEN
            IF Len(parts) # 3 THEN unpack
            ELSE [exc |-> "none", hours |-> parts[1], minutes |-> parts[2],
                  seconds |-> parts[3]]
        ELSE IF length = 9 THEN
            IF Len(parts) # 2 THEN unpack
            ELSE [exc |-> "none", hours |-> <<"0">>, minutes |-> parts[1],
                  seconds |-> parts[2]]
        ELSE IF length = 6 THEN
            [exc |-> "none", hours |-> <<"0">>, minutes |-> <<"0">>, seconds |-> t]
        ELSE IF length = 5 THEN
            IF Len(parts) # 2 THEN unpack
            ELSE [exc |-> "none", hours |-> <<"0">>, minutes |-> parts[1],
                  seconds |-> parts[2] \o <<",", "0", "0", "0">>]
        ELSE IF length <= 3 /\ length > 0 THEN
            [exc |-> "none"] @@ ShortTimestring(t)
        ELSE [exc |-> "InvalidTimestringException"]
    : parts \in {Split(t, <<":">>)}})

\* Timecode(time) for a str: [exc, ms]
TimecodeInit(str) ==
    The({
    IF given = <<>> THEN [exc |-> "IndexError", ms |-> 0]      \* time[0] of ''
    ELSE
    LET sign == IF given[1] = "-" THEN -1 ELSE 1
    IN  The({
        IF f.exc # "none" THEN [exc |-> f.exc, ms |-> 0]
        ELSE The({
            IF Len(sm) # 2 THEN [exc |-> "ValueError", ms |-> 0]
            ELSE The({
                IF \E r \in {seconds, minutes, hours, milliseconds} : r.exc # "none"
                THEN [exc |-> "ValueError", ms |-> 0]
                ELSE [exc |-> "none",
                      ms  |-> (seconds.val * 1000 + minutes.val * 1000 * 60
                               + hours.val * 1000 * 60 * 60 + milliseconds.val) * sign]
                : seconds \in {PyInt10(sm[1])}, minutes \in {PyInt10(f.minutes)},
                  hours \in {PyInt10(f.hours)}, milliseconds \in {PyInt10(sm[2])}})
            : sm \in {Split(f.seconds, <<",">>)}})
        : f \in {TimeFields(IF given[1] = "-" THEN Tail(given) ELSE given)}})
    : given \in {str}})

\* Timecode.stringify(total)
Stringify(total) ==
    LET negative     == total < 0
        t0           == IF negative THEN -total ELSE total
        milliseconds == t0 % 1000
        t1           == t0 \div 1000
        seconds      == t1 % 60
        t2           == t1 \div 60
        minutes      == t2 % 60
        hours        == t2 \div 60
        sign         == IF negative THEN <<"-">> ELSE <<>>
    IN  sign \o FormatD(hours, 2) \o <<":">> \o FormatD(minutes, 2) \o <<":">>
             \o FormatD(seconds, 2) \o <<",">> \o FormatD(milliseconds, 3)

\* Timecode arithmetic, on the millisecond counts
TimecodeAdd(self, other) == self + other
TimecodeSub(self, other) == self - other
\* a variant of __neg__ that copies __pos__
TimecodePos(self) == self

TimecodeNeg(self) == -self

(***************************************************************************)
(* class SubRip(list)                                                      *)
(***************************************************************************)
NL    == <<"\n">>
CRLF  == <<"\r", "\n">>
Arrow == <<"-", "-", ">">>

\* the body of the loop of SubRip.__init__ for one block `each': [exc, entry]
ParseEntry(block) ==
    The({The({
    LET none == [index |-> 0, start |-> 0, end |-> 0, text |-> <<>>]
    IN  IF index.exc # "none" THEN [exc |-> index.exc, entry |-> none]
        ELSE IF Len(each) < 2 THEN [exc |-> "IndexError", entry |-> none]
        ELSE The({The({The({
            IF bad # {} THEN [exc |-> codes[Min(bad)].exc, entry |-> none]
            ELSE IF Len(parts) # 2 THEN [exc |-> "ValueError", entry |-> none]
            ELSE [exc   |-> "none",
                  entry |-> [index |-> index.val,
                             text  |-> Join(SubSeq(each, 3, Len(each)), NL),
                             start |-> codes[1].ms,
                             end   |-> codes[2].ms]]
            : bad \in {{i \in 1..Len(parts) : codes[i].exc # "none"}}})
            : codes \in {[i \in 1..Len(parts) |-> TimecodeInit(Strip(parts[i]))]}})
            : parts \in {Split(each[2], Arrow)}})
    : index \in {PyInt10(each[1])}})
    : each \in {Split(block, NL)}})

\* SubRip(rawdata): [exc, subs]; the first block that fails ends the construction
SubRipInit(rawdata) ==
    The({The({The({
        IF bad # {} THEN [exc |-> entries[Min(bad)].exc, subs |-> <<>>]
        ELSE [exc |-> "none", subs |-> [i \in 1..Len(blocks) |-> entries[i].entry]]
        : bad \in {{i \in 1..Len(blocks) : entries[i].exc # "none"}}})
        : entries \in {[i \in 1..Len(blocks) |-> ParseEntry(blocks[i])]}})
        : blocks \in {Split(Replace(Strip(rawdata), CRLF, NL), NL \o NL)}})

\* "%(index)s\n%(start)s --> %(end)s\n%(text)s" % each
EntryStr(each) ==
    FormatInt(each.index) \o NL \o Stringify(each.start) \o <<" ">> \o Arrow
        \o <<" ">> \o Stringify(each.end) \o NL \o each.text

\* str(subs)
SubRipStr(self) ==
    The({Join([i \in 1..Len(v) |-> EntryStr(v[i])], NL \o NL) : v \in {self}})

ShiftTimeBy(self, t) ==
    [i \in 1..Len(self) |->
        [self[i] EXCEPT !.start = TimecodeAdd(self[i].start, t),
                        !.end   = TimecodeAdd(self[i].end, t)]]

MultiplyTimeBy(self, factor) ==
    [i \in 1..Len(self) |->
        [self[i] EXCEPT !.start = PyIntOfFloat(FloatTimes(self[i].start, factor)),
                        !.end   = PyIntOfFloat(FloatTimes(self[i].end, factor))]]

ShiftIndexBy(self, n) ==
    [i \in 1..Len(self) |-> [self[i] EXCEPT !.index = self[i].index + n]]

\* a variant that never moves the anchor to zero
ResizeUnanchored(self, anchor, factor) ==
    ShiftTimeBy(MultiplyTimeBy(self, factor), anchor)

Resize(self, anchor, factor) ==
    ShiftTimeBy(MultiplyTimeBy(ShiftTimeBy(self, TimecodeNeg(anchor)), factor), anchor)

Reindex(self) ==
    [i \in 1..Len(self) |-> [self[i] EXCEPT !.index = (i - 1) + 1]]

(***************************************************************************)
(* The Timecode specification: a Timecode is constructed from a string,    *)
(* printed, added to, subtracted from or negated.                          *)
(***************************************************************************)
\* the strings tried: every prefix of these, with and without a sign
TimePatterns == {
    <<"1", "2", ":", "3", "4", ":", "5", "6", ",", "7", "8", "9", "0", "1", "2">>,
    <<"3", "4", ":", "5", "6", ",", "7", "8", "9", "0", "1", "2", "3", "4", "5">>,
    <<"5", "6", ",", "7", "8", "9", "0", "1", "2", "3", "4", "5", "6", "7", "8">>,
    <<"9", "8", "7", "6", "5", "4", "3", "2", "1", "0", "9", "8", "7", "6", "5">>,
    <<"9", "9", ":", "9", "9", ":", "9", "9", ",", "9", "9", "9", "9", "9", "9">>,
    <<"0", "0", ":", "0", "0", ":", "0", "0", ",", "0", "0", "0", "0", "0", "0">> }

Take(s, n) == SubSeq(s, 1, IF n < Len(s) THEN n ELSE Len(s))

\* strings with whitespace or a second sign in a field
SpacedTimeStrings == {
    <<"-", "-", " ", "5">>, <<"1", ":", "-", " ", "1">>, <<"\f", "5">>,
    <<"+", " ", "2">>, <<VerticalTab, "5", " ">>, <<" ", "7">>,
    <<"-", " ">>, <<"+", "-", "5">>, <<"0", ":", "\t", "+", "9">> }

TimeStrings ==
    {sign \o Take(p, n) : sign \in {<<>>, <<"-">>}, p \in TimePatterns,
                          n \in 0..MaxTimeLen}
        \cup SpacedTimeStrings

\* the operands of + and -: one second, 100 hours
TimeOperands == {1000, 360000000}


\* Timecode(str) for each of the strings tried, computed once
Constructed == [str \in TimeStrings |-> TimecodeInit(str)]

TimecodeNew(str) ==
    /\ time' = str
    /\ tc' = IF str \in TimeStrings THEN Constructed[str] ELSE TimecodeInit(str)
    /\ tcop' = [name |-> "new", n |-> tcop.n]
    /\ UNCHANGED <<subVars, srtVars>>

TimecodeStr ==
    /\ tc.exc = "none"
    /\ time' = Stringify(tc.ms)
    /\ tcop' = [name |-> "str", n |-> tcop.n]
    /\ UNCHANGED <<tc, subVars, srtVars>>

TimecodeAddOp(other) ==
    /\ tc.exc = "none"
    /\ tcop.n < MaxArith
    /\ tc' = [exc |-> "none", ms |-> TimecodeAdd(tc.ms, other)]
    /\ tcop' = [name |-> "add", n |-> tcop.n + 1]
    /\ UNCHANGED <<time, subVars, srtVars>>

TimecodeSubOp(other) ==
    /\ tc.exc = "none"
    /\ tcop.n < MaxArith
    /\ tc' = [exc |-> "none", ms |-> TimecodeSub(tc.ms, other)]
    /\ tcop' = [name |-> "sub", n |-> tcop.n + 1]
    /\ UNCHANGED <<time, subVars, srtVars>>

TimecodeNegOp ==
    /\ tc.exc = "none"
    /\ tcop.n < MaxArith
    /\ tc' = [exc |-> "none", ms |-> TimecodeNeg(tc.ms)]
    /\ tcop' = [name |-> "neg", n |-> tcop.n + 1]
    /\ UNCHANGED <<time, subVars, srtVars>>

NoSubRip == /\ subs = <<>>
            /\ prev = <<>>
            /\ call = [name |-> "none", time |-> 0, factor |-> Quotient(1, 1),
                       k |-> 0, n |-> 0]

NoSRT == /\ files = <<>>
         /\ old = <<>>
         /\ cmd = [name |-> "none", argv |-> <<>>, nfiles |-> 0,
                   opts |-> [none |-> <<>>]]
         /\ status = [exit |-> 0, uncaught |-> "none"]
         /\ base = <<>>

InitTimecode ==
    /\ time \in TimeStrings
    /\ tc = TimecodeInit(time)
    /\ tcop = [name |-> "new", n |-> 0]
    /\ NoSubRip
    /\ NoSRT

NextTimecode ==
    \/ \E str \in TimeStrings \cup {time} : TimecodeNew(str)
    \/ TimecodeStr
    \/ \E other \in TimeOperands : TimecodeAddOp(other)
    \/ \E other \in TimeOperands : TimecodeSubOp(other)
    \/ TimecodeNegOp

SpecTimecode == InitTimecode /\ [][NextTimecode]_vars

(***************************************************************************)
(* Subtitle files.                                                         *)
(***************************************************************************)
\* one entry
RawOne ==
    <<"1", "\n", "0", "0", ":", "0", "0", ":", "0", "1", ",", "0",
      "0", "0", " ", "-", "-", ">", " ", "0", "0", ":", "0", "0",
      ":", "0", "2", ",", "5", "0", "0", "\n", "a">>

\* two entries, the second of two lines; indices out of order
RawTwo ==
    <<"4", "\n", "0", "0", ":", "0", "0", ":", "0", "1", ",", "0",
      "0", "0", " ", "-", "-", ">", " ", "0", "0", ":", "0", "0",
      ":", "0", "2", ",", "0", "0", "0", "\n", "a", "b", "\n", "\n",
      "2", "\n", "0", "0", ":", "0", "0", ":", "0", "3", ",", "0",
      "0", "1", " ", "-", "-", ">", " ", "0", "0", ":", "0", "0",
      ":", "0", "4", ",", "0", "0", "0", "\n", "b", "\n", "a", "\n">>

\* the first block has only an index line and a timestamp line
RawNoText ==
    <<"7", "\n", "0", "0", ":", "0", "0", " ", "-", "-", ">", " ",
      "0", "0", ":", "0", "1", "\n", "\n", "7", "\n", "0", "0", ":",
      "0", "2", " ", "-", "-", ">", " ", "0", "0", ":", "0", "3",
      "\n", "a">>

\* CR LF line ends; the last block has no text
RawCRLF ==
    <<"1", "\r", "\n", "0", "0", ":", "0", "0", ":", "0", "0", ",",
      "5", "0", "0", " ", "-", "-", ">", " ", "0", "0", ":", "0",
      "0", ":", "0", "1", ",", "5", "0", "0", "\r", "\n", "a", "\r",
      "\n", "\r", "\n", "2", "\r", "\n", "0", "0", ":", "0", "0", ":",
      "0", "2", ",", "0", "0", "0", "-", "-", ">", "0", "0", ":",
      "0", "0", ":", "0", "3", ",", "0", "0", "0", "\r", "\n">>

\* an entry ending one millisecond before 100 hours
RawLate ==
    <<"1", "\n", "9", "9", ":", "5", "9", ":", "5", "8", ",", "9",
      "9", "9", " ", "-", "-", ">", " ", "9", "9", ":", "5", "9",
      ":", "5", "9", ",", "9", "9", "9", "\n", "a">>

\* the first block has no timestamp line
RawBad ==
    <<"1", "\n", "\n", "2", "\n", "0", "0", ":", "0", "0", ":", "0",
      "1", ",", "0", "0", "0", " ", "-", "-", ">", " ", "0", "0",
      ":", "0", "0", ":", "0", "2", ",", "0", "0", "0", "\n", "a">>

\* whitespace around the text, inside the index and inside a timestamp
RawSpaced ==
    <<"\f", "-", " ", "1", "\n", "0", "0", ":", "0", "1", " ", "-", "-", ">",
      "+", " ", "2", "\n", "a", VerticalTab>>

RawDocs == {RawOne, RawTwo, RawNoText, RawCRLF, RawLate, RawBad, RawSpaced}

\* the files that SubRip() accepts
ValidDocs == {raw \in RawDocs : SubRipInit(raw).exc = "none"}

(***************************************************************************)
(* The SubRip specification: a document is parsed, then its methods are    *)
(* called.                                                                 *)
(***************************************************************************)
\* the Timecode arguments (shift_time_by's time, resize's anchor), in ms
TimeArgs == {-1500, 0, 1000}

\* the float arguments: -1.5, 0.0, 0.5, 2.0 and -0.7, which is no float and
\* stands for the float nearest to it
Factors == {Quotient(-3, 2), Quotient(0, 1), Quotient(1, 2), Quotient(2, 1),
            Quotient(-7, 10)}

\* shift_index_by's arguments
IndexArgs == {-2, 1}

NoFactor == Quotient(1, 1)

\* the timecodes scaled stay within MaxMs (Python's integers are unbounded)
InRange(self) ==
    \A i \in 1..Len(self) : Abs(self[i].start) <= MaxMs /\ Abs(self[i].end) <= MaxMs

Called(name, t, factor, k) ==
    [name |-> name, time |-> t, factor |-> factor, k |-> k, n |-> call.n + 1]

CallShiftTimeBy(t) ==
    /\ call.n < MaxCalls
    /\ subs' = ShiftTimeBy(subs, t)
    /\ prev' = subs
    /\ call' = Called("shift_time_by", t, NoFactor, 0)
    /\ UNCHANGED <<tcVars, srtVars>>

CallMultiplyTimeBy(factor) ==
    /\ call.n < MaxCalls
    /\ InRange(subs)
    /\ subs' = MultiplyTimeBy(subs, factor)
    /\ prev' = subs
    /\ call' = Called("multiply_time_by", 0, factor, 0)
    /\ UNCHANGED <<tcVars, srtVars>>

CallShiftIndexBy(k) ==
    /\ call.n < MaxCalls
    /\ subs' = ShiftIndexBy(subs, k)
    /\ prev' = subs
    /\ call' = Called("shift_index_by", 0, NoFactor, k)
    /\ UNCHANGED <<tcVars, srtVars>>

CallResize(anchor, factor) ==
    /\ call.n < MaxCalls
    /\ InRange(subs)
    /\ subs' = Resize(subs, anchor, factor)
    /\ prev' = subs
    /\ call' = Called("resize", anchor, factor, 0)
    /\ UNCHANGED <<tcVars, srtVars>>

CallReindex ==
    /\ call.n < MaxCalls
    /\ subs' = Reindex(subs)
    /\ prev' = subs
    /\ call' = Called("reindex", 0, NoFactor, 0)
    /\ UNCHANGED <<tcVars, srtVars>>

NoTimecode == /\ time = <<>>
              /\ tc = [exc |-> "none", ms |-> 0]
              /\ tcop = [name |-> "none", n |-> 0]

InitSubRip ==
    /\ \E raw \in ValidDocs : subs = SubRipInit(raw).subs
    /\ prev = subs
    /\ call = [name |-> "init", time |-> 0, factor |-> NoFactor, k |-> 0, n |-> 0]
    /\ NoTimecode
    /\ NoSRT

NextSubRip ==
    \/ \E t \in TimeArgs : CallShiftTimeBy(t)
    \/ \E factor \in Factors : CallMultiplyTimeBy(factor)
    \/ \E k \in IndexArgs : CallShiftIndexBy(k)
    \/ \E anchor \in TimeArgs, factor \in Factors : CallResize(anchor, factor)
    \/ CallReindex

SpecSubRip == InitSubRip /\ [][NextSubRip]_vars

(***************************************************************************)
(* class SRT and main(): one run of the program dispatches one subcommand. *)
(* argv is the command line after the program's name.  What getopt makes  *)
(* of the words after the subcommand is the number nfiles of files named   *)
(* (the first nfiles files) and a record opts with one field per local     *)
(* variable an option sets, holding the values given for that option in    *)
(* the order given (<<>>: the option is not given).                        *)
(***************************************************************************)
ShiftWord   == <<"s", "h", "i", "f", "t">>
ShiftbyWord == <<"s", "h", "i", "f", "t", "b", "y">>
MergeWord   == <<"m", "e", "r", "g", "e">>
ReindexWord == <<"r", "e", "i", "n", "d", "e", "x">>
StretchWord == <<"s", "t", "r", "e", "t", "c", "h">>
SqueezeWord == <<"s", "q", "u", "e", "e", "z", "e">>
SyncWord    == <<"s", "y", "n", "c">>
ReplaceWord == <<"r", "e", "p", "l", "a", "c", "e">>
VersionWord == <<"v", "e", "r", "s", "i", "o", "n">>
HelpWord    == <<"h", "e", "l", "p">>

\* SRT.aliases(): the method each subcommand names
Aliases ==
    (ShiftWord :> "shift") @@ (ShiftbyWord :> "shiftby") @@ (MergeWord :> "merge")
    @@ (ReindexWord :> "reindex") @@ (StretchWord :> "stretch")
    @@ (SqueezeWord :> "stretch") @@ (SyncWord :> "sync")
    @@ (ReplaceWord :> "replace") @@ (VersionWord :> "version")
    @@ (HelpWord :> "help") @@ (<<"h">> :> "help") @@ (<<"?">> :> "help")

\* one round of the loop that strips a prefixing dash: subcommand[0] of ''
\* raises IndexError
StripDash(r) ==
    IF r.exc # "none" THEN r
    ELSE IF r.word = <<>> THEN [exc |-> "IndexError", word |-> <<>>]
    ELSE IF r.word[1] = "-" THEN [exc |-> "none", word |-> Tail(r.word)]
    ELSE r

\* argv as main() passes it on: "help" is appended when there is no subcommand
WithHelp(argv) == IF Len(argv) < 1 THEN <<HelpWord>> ELSE argv

\* main() up to the dispatch: the method argv[1] names, Usage when it names
\* none
Subcommand(argv) ==
    The({
        IF r.exc # "none" THEN [exc |-> r.exc, method |-> "none"]
        ELSE IF r.word \notin DOMAIN Aliases THEN [exc |-> "Usage", method |-> "none"]
        ELSE [exc |-> "none", method |-> Aliases[r.word]]
    : r \in {StripDash(StripDash([exc |-> "none", word |-> WithHelp(argv)[1]]))}})

\* SRT.help: Usage with the docstring of the method that the word after
\* "help" names, or that argv[1] itself names; KeyError when it names none
HelpCommand(argv) ==
    The({
        IF key \in DOMAIN Aliases THEN "Usage" ELSE "KeyError"
    : key \in {IF Len(WithHelp(argv)) > 1 THEN WithHelp(argv)[2]
               ELSE WithHelp(argv)[1]}})

\* the loop over opts for one option that holds a timecode: Timecode(value)
\* for every value given, the last one is kept; a value that Timecode()
\* rejects, for whatever reason, raises Usage
OptionTimecode(values) ==
    The({
        IF \E i \in 1..Len(values) : codes[i].exc # "none"
        THEN [exc |-> "Usage", given |-> FALSE, ms |-> 0]
        ELSE IF values = <<>> THEN [exc |-> "none", given |-> FALSE, ms |-> 0]
        ELSE [exc |-> "none", given |-> TRUE, ms |-> codes[Len(values)].ms]
    : codes \in {[i \in 1..Len(values) |-> TimecodeInit(values[i])]}})

\* the loop over opts for --factor: a value is what float(value) makes of it,
\* a float or a ValueError
OptionFloat(values) ==
    IF \E i \in 1..Len(values) : values[i].exc # "none"
    THEN [exc |-> "Usage", given |-> FALSE, val |-> Quotient(0, 1)]
    ELSE IF values = <<>> THEN [exc |-> "none", given |-> FALSE, val |-> Quotient(0, 1)]
    ELSE [exc |-> "none", given |-> TRUE, val |-> values[Len(values)].val]

\* "00:00:00,000"
ZeroTimestring == <<"0", "0", ":", "0", "0", ":", "0", "0", ",", "0", "0", "0">>

\* the loop of SRT.shiftby from file i on: [files, exc]
RECURSIVE ShiftbyLoop(_, _, _, _)
ShiftbyLoop(fs, i, nfiles, by) ==
    IF i > nfiles THEN [files |-> fs, exc |-> "none"]
    ELSE The({
        IF parsed.exc # "none" THEN [files |-> fs, exc |-> parsed.exc]
        ELSE The({ShiftbyLoop(written, i + 1, nfiles, by)
                  : written \in {[fs EXCEPT ![i] =
                                     SubRipStr(ShiftTimeBy(parsed.subs, by))]}})
        : parsed \in {SubRipInit(fs[i])}})

\* SRT.shiftby after getopt
ShiftbyCommand(fs, nfiles, opts) ==
    The({
        IF by.exc # "none" THEN [files |-> fs, exc |-> by.exc]
        ELSE IF ~by.given THEN [files |-> fs, exc |-> "Usage"]
        ELSE ShiftbyLoop(fs, 1, nfiles, by.ms)
    : by \in {OptionTimecode(opts.by)}})

\* the loop of SRT.shift from file i on: [files, exc]
RECURSIVE ShiftLoop(_, _, _, _)
ShiftLoop(fs, i, nfiles, by) ==
    IF i > nfiles THEN [files |-> fs, exc |-> "none"]
    ELSE The({
        IF parsed.exc # "none" THEN [files |-> fs, exc |-> parsed.exc]
        ELSE The({ShiftLoop(written, i + 1, nfiles, by)
                  : written \in {[fs EXCEPT ![i] =
                                     SubRipStr(ShiftTimeBy(parsed.subs, by))]}})
        : parsed \in {SubRipInit(fs[i])}})

\* SRT.shift after getopt: target and to are not assigned before the loop
\* over opts, so reading one that no option has set raises UnboundLocalError
ShiftCommand(fs, nfiles, opts) ==
    The({
        IF target.exc # "none" THEN [files |-> fs, exc |-> target.exc]
        ELSE IF to.exc # "none" THEN [files |-> fs, exc |-> to.exc]
        ELSE IF ~target.given THEN [files |-> fs, exc |-> "UnboundLocalError"]
        ELSE IF ~to.given THEN [files |-> fs, exc |-> "UnboundLocalError"]
        ELSE ShiftLoop(fs, 1, nfiles, TimecodeSub(to.ms, target.ms))
    : target \in {OptionTimecode(opts.target)}, to \in {OptionTimecode(opts.to)}})

\* a variant of the loop that takes the next offset before the shift
RECURSIVE MergeLoopStaleOffset(_, _, _)
MergeLoopStaleOffset(b, rest, offset) ==
    IF rest = <<>> THEN b
    ELSE The({MergeLoopStaleOffset(b \o ShiftTimeBy(sub, offset), Tail(rest),
                                   sub[Len(sub)].end)
              : sub \in {Head(rest)}})

\* the loop of SRT.merge over the remaining documents
RECURSIVE MergeLoop(_, _, _)
MergeLoop(b, rest, offset) ==
    IF rest = <<>> THEN b
    ELSE The({MergeLoop(b \o sub, Tail(rest), sub[Len(sub)].end)
              : sub \in {ShiftTimeBy(Head(rest), offset)}})

\* SRT.merge: [base, exc]
MergeCommand(fs, nfiles) ==
    IF nfiles < 2 THEN [base |-> <<>>, exc |-> "Usage"]
    ELSE
    The({
    LET bad == {i \in 1..nfiles : parsed[i].exc # "none"}
    IN  IF bad # {} THEN [base |-> <<>>, exc |-> parsed[Min(bad)].exc]
        ELSE The({The({
            [base |-> Reindex(merged), exc |-> "none"]
            : merged \in {MergeLoop(docs[1], Tail(docs), docs[1][Len(docs[1])].end)}})
            : docs \in {[i \in 1..nfiles |-> parsed[i].subs]}})
    : parsed \in {[i \in 1..nfiles |-> SubRipInit(fs[i])]}})

\* the loop of SRT.stretch from file i on: [files, exc]
RECURSIVE StretchLoop(_, _, _, _, _)
StretchLoop(fs, i, nfiles, anchor, factor) ==
    IF i > nfiles THEN [files |-> fs, exc |-> "none"]
    ELSE The({
        IF parsed.exc # "none" THEN [files |-> fs, exc |-> parsed.exc]
        ELSE The({StretchLoop(written, i + 1, nfiles, anchor, factor)
                  : written \in {[fs EXCEPT ![i] =
                                     SubRipStr(Resize(parsed.subs, anchor, factor))]}})
        : parsed \in {SubRipInit(fs[i])}})

\* SRT.stretch after getopt
StretchCommand(fs, nfiles, opts) ==
    The({
        IF factor.exc # "none" THEN [files |-> fs, exc |-> factor.exc]
        ELSE IF anchor.exc # "none" THEN [files |-> fs, exc |-> anchor.exc]
        ELSE IF ~factor.given THEN [files |-> fs, exc |-> "Usage"]
        ELSE StretchLoop(fs, 1, nfiles,
                         IF ~anchor.given THEN TimecodeInit(ZeroTimestring).ms
                         ELSE anchor.ms,
                         factor.val)
    : factor \in {OptionFloat(opts.factor)}, anchor \in {OptionTimecode(opts.anchor)}})

\* the loop of SRT.sync from file i on: [files, exc].  target and goal are
\* the loop's variables, reassigned in every iteration
RECURSIVE SyncLoop(_, _, _, _, _, _)
SyncLoop(fs, i, nfiles, target, goal, anchor) ==
    IF i > nfiles THEN [files |-> fs, exc |-> "none"]
    ELSE The({
        IF parsed.exc # "none" THEN [files |-> fs, exc |-> parsed.exc]
        ELSE IF target2 = 0 THEN [files |-> fs, exc |-> "ZeroDivisionError"]
        ELSE The({The({
            SyncLoop(written, i + 1, nfiles, target2, goal2, anchor)
            : written \in {[fs EXCEPT ![i] = SubRipStr(resized)]}})
            : resized \in {Resize(parsed.subs, anchor, Quotient(goal2, target2))}})
        : parsed \in {SubRipInit(fs[i])},
          target2 \in {TimecodeSub(target, anchor)},
          goal2 \in {TimecodeSub(goal, anchor)}})

\* SRT.sync after getopt
SyncCommand(fs, nfiles, opts) ==
    The({
        IF target.exc # "none" THEN [files |-> fs, exc |-> target.exc]
        ELSE IF goal.exc # "none" THEN [files |-> fs, exc |-> goal.exc]
        ELSE IF anchor.exc # "none" THEN [files |-> fs, exc |-> anchor.exc]
        ELSE IF ~target.given THEN [files |-> fs, exc |-> "Usage"]
        ELSE IF ~goal.given THEN [files |-> fs, exc |-> "Usage"]
        ELSE SyncLoop(fs, 1, nfiles, target.ms, goal.ms,
                      IF ~anchor.given THEN TimecodeInit(ZeroTimestring).ms
                      ELSE anchor.ms)
    : target \in {OptionTimecode(opts.target)}, goal \in {OptionTimecode(opts.goal)},
      anchor \in {OptionTimecode(opts.anchor)}})

\* the loop of SRT.reindex from file i on: [files, exc]
RECURSIVE ReindexLoop(_, _, _)
ReindexLoop(fs, i, nfiles) ==
    IF i > nfiles THEN [files |-> fs, exc |-> "none"]
    ELSE
    The({
        IF parsed.exc # "none" THEN [files |-> fs, exc |-> parsed.exc]
        ELSE The({ReindexLoop(written, i + 1, nfiles)
                  : written \in {[fs EXCEPT ![i] = SubRipStr(Reindex(parsed.subs))]}})
        : parsed \in {SubRipInit(fs[i])}})

\* the inner loop of SRT.replace: the text of every entry
ReplaceText(self, find, replace) ==
    [i \in 1..Len(self) |->
        [self[i] EXCEPT !.text = Replace(self[i].text, find, replace)]]

\* the loop of SRT.replace from file i on: [files, exc]
RECURSIVE ReplaceLoop(_, _, _, _, _)
ReplaceLoop(fs, i, nfiles, find, replace) ==
    IF i > nfiles THEN [files |-> fs, exc |-> "none"]
    ELSE The({
        IF parsed.exc # "none" THEN [files |-> fs, exc |-> parsed.exc]
        ELSE The({ReplaceLoop(written, i + 1, nfiles, find, replace)
                  : written \in {[fs EXCEPT ![i] =
                                     SubRipStr(ReplaceText(parsed.subs, find, replace))]}})
        : parsed \in {SubRipInit(fs[i])}})

\* SRT.replace after getopt: the last value given for an option is kept
ReplaceCommand(fs, nfiles, opts) ==
    IF opts.find = <<>> \/ opts.replace = <<>> THEN [files |-> fs, exc |-> "Usage"]
    ELSE ReplaceLoop(fs, 1, nfiles, opts.find[Len(opts.find)],
                     opts.replace[Len(opts.replace)])

\* main(): Usage is caught and main returns 2, and so does getopt.error, which
\* is raised again as Usage; any other exception leaves main uncaught
Main(exc) ==
    IF exc = "none" THEN [exit |-> 0, uncaught |-> "none"]
    ELSE IF exc \in {"Usage", "getopt.error"} THEN [exit |-> 2, uncaught |-> "none"]
    ELSE [exit |-> 1, uncaught |-> exc]

\* the files of the model
SrtDocs == {RawOne, RawTwo, RawNoText, RawBad}

\* timecodes as they are written on the command line, and a word that is none
Time0 == ZeroTimestring
Time1 == <<"0", "0", ":", "0", "0", ":", "0", "1", ",", "0", "0", "0">>
Time2 == <<"0", "0", ":", "0", "2", ",", "0", "0", "0">>
Time3 == <<"0", "0", ":", "0", "3">>
Time5 == <<"0", "5", ",", "0", "0", "0">>
Time570 == <<"5", "7", "0">>
Back1 == <<"-", "0", "0", ":", "0", "1">>
NoTime == <<"s", "o", "o", "n">>

\* the options of sync; the goal 570 ms for the target 1 s gives the factor
\* 0.57, which is no float
SyncOptions ==
    [target : {<<>>, <<Time1>>, <<Time3>>, <<NoTime>>},
     goal   : {<<>>, <<Time2>>, <<Time570>>},
     anchor : {<<>>, <<Time0>>, <<Time1>>}]

\* the options of shiftby; the last one gives --by twice
ShiftbyOptions == [by : {<<>>, <<Back1>>, <<NoTime>>, <<Time5, Time1>>}]

\* the options of shift
ShiftOptions == [target : {<<>>, <<Time1>>, <<NoTime>>}, to : {<<>>, <<Time3>>}]

\* what float() makes of the values given for --factor: -1.5, the float
\* nearest to 0.7, ValueError
FloatValues == {[exc |-> "none", val |-> Quotient(-3, 2)],
                [exc |-> "none", val |-> Quotient(7, 10)],
                [exc |-> "ValueError", val |-> Quotient(0, 1)]}

\* the options of stretch
StretchOptions == [factor : {<<>>} \cup {<<f>> : f \in FloatValues},
                   anchor : {<<>>, <<Time1>>}]

\* the options of replace: the texts "a", "" (which occurs everywhere) and "bb"
ReplaceOptions == [find : {<<>>, << <<"a">> >>, << <<>> >>},
                   replace : {<<>>, << <<"b", "b">> >>}]

NoOptions == [none |-> <<>>]

\* the words of a command line that runs a subcommand on files
FileWords == {ShiftWord, ShiftbyWord, MergeWord, ReindexWord, StretchWord,
              SqueezeWord, SyncWord, ReplaceWord, <<"-">> \o MergeWord,
              <<"-", "-">> \o ReindexWord}

\* the command lines that reach no subcommand or one that takes no file
OtherArgvs == {<<>>, <<HelpWord>>, <<<<"-", "-">> \o HelpWord>>, <<<<"-", "h">>>>,
               <<<<"?">>>>, <<HelpWord, MergeWord>>, <<<<"h">>, SqueezeWord>>,
               <<HelpWord, <<"-", "-">> \o SyncWord>>,
               <<VersionWord>>, <<<<"-", "-">> \o VersionWord>>,
               <<<<>>>>, <<<<"-">>>>, <<<<"-", "-">>>>, <<<<"-", "-", "-">> \o HelpWord>>,
               <<<<"m", "e", "r", "g">>>>}

Ran(method, argv, nfiles, opts) ==
    [name |-> method, argv |-> argv, nfiles |-> nfiles, opts |-> opts]

Dispatches(argv, method) == Subcommand(argv) = [exc |-> "none", method |-> method]

Shiftby(word, nfiles, opts) ==
    /\ cmd.name = "none"
    /\ Dispatches(<<word>>, "shiftby")
    /\ \E r \in {ShiftbyCommand(files, nfiles, opts)} :
           /\ files' = r.files
           /\ status' = Main(r.exc)
    /\ old' = files
    /\ cmd' = Ran("shiftby", <<word>>, nfiles, opts)
    /\ base' = <<>>
    /\ UNCHANGED <<tcVars, subVars>>

Shift(word, nfiles, opts) ==
    /\ cmd.name = "none"
    /\ Dispatches(<<word>>, "shift")
    /\ \E r \in {ShiftCommand(files, nfiles, opts)} :
           /\ files' = r.files
           /\ status' = Main(r.exc)
    /\ old' = files
    /\ cmd' = Ran("shift", <<word>>, nfiles, opts)
    /\ base' = <<>>
    /\ UNCHANGED <<tcVars, subVars>>

Merge(word, nfiles) ==
    /\ cmd.name = "none"
    /\ Dispatches(<<word>>, "merge")
    /\ \E r \in {MergeCommand(files, nfiles)} :
           /\ base' = r.base
           /\ status' = Main(r.exc)
    /\ old' = files
    /\ cmd' = Ran("merge", <<word>>, nfiles, NoOptions)
    /\ UNCHANGED <<files, tcVars, subVars>>

Stretch(word, nfiles, opts) ==
    /\ cmd.name = "none"
    /\ Dispatches(<<word>>, "stretch")
    /\ \E r \in {StretchCommand(files, nfiles, opts)} :
           /\ files' = r.files
           /\ status' = Main(r.exc)
    /\ old' = files
    /\ cmd' = Ran("stretch", <<word>>, nfiles, opts)
    /\ base' = <<>>
    /\ UNCHANGED <<tcVars, subVars>>

Sync(word, nfiles, opts) ==
    /\ cmd.name = "none"
    /\ Dispatches(<<word>>, "sync")
    /\ \E r \in {SyncCommand(files, nfiles, opts)} :
           /\ files' = r.files
           /\ status' = Main(r.exc)
    /\ old' = files
    /\ cmd' = Ran("sync", <<word>>, nfiles, opts)
    /\ base' = <<>>
    /\ UNCHANGED <<tcVars, subVars>>

ReindexFiles(word, nfiles) ==
    /\ cmd.name = "none"
    /\ Dispatches(<<word>>, "reindex")
    /\ \E r \in {ReindexLoop(files, 1, nfiles)} :
           /\ files' = r.files
           /\ status' = Main(r.exc)
    /\ old' = files
    /\ cmd' = Ran("reindex", <<word>>, nfiles, NoOptions)
    /\ base' = <<>>
    /\ UNCHANGED <<tcVars, subVars>>

ReplaceInFiles(word, nfiles, opts) ==
    /\ cmd.name = "none"
    /\ Dispatches(<<word>>, "replace")
    /\ \E r \in {ReplaceCommand(files, nfiles, opts)} :
           /\ files' = r.files
           /\ status' = Main(r.exc)
    /\ old' = files
    /\ cmd' = Ran("replace", <<word>>, nfiles, opts)
    /\ base' = <<>>
    /\ UNCHANGED <<tcVars, subVars>>

\* getopt rejects the words after the subcommand (an option that the
\* subcommand does not have, or one without its value)
GetoptError(word) ==
    /\ cmd.name = "none"
    /\ \E method \in {"shiftby", "shift", "merge", "stretch", "sync", "reindex",
                      "replace"} :
           /\ Dispatches(<<word>>, method)
           /\ cmd' = Ran(method, <<word>>, 0, NoOptions)
    /\ status' = Main("getopt.error")
    /\ old' = files
    /\ base' = <<>>
    /\ UNCHANGED <<files, tcVars, subVars>>

Help(argv) ==
    /\ cmd.name = "none"
    /\ Dispatches(argv, "help")
    /\ status' = Main(HelpCommand(argv))
    /\ old' = files
    /\ cmd' = Ran("help", argv, 0, NoOptions)
    /\ base' = <<>>
    /\ UNCHANGED <<files, tcVars, subVars>>

\* SRT.version prints the version
Version(argv) ==
    /\ cmd.name = "none"
    /\ Dispatches(argv, "version")
    /\ status' = Main("none")
    /\ old' = files
    /\ cmd' = Ran("version", argv, 0, NoOptions)
    /\ base' = <<>>
    /\ UNCHANGED <<files, tcVars, subVars>>

\* main() dispatches nothing: the subcommand is not one of the aliases, or it
\* is empty when its first character is looked at
Unrecognized(argv) ==
    /\ cmd.name = "none"
    /\ Subcommand(argv).exc # "none"
    /\ status' = Main(Subcommand(argv).exc)
    /\ old' = files
    /\ cmd' = Ran("unrecognized", argv, 0, NoOptions)
    /\ base' = <<>>
    /\ UNCHANGED <<files, tcVars, subVars>>

InitSRT ==
    /\ files \in [1..NumFiles -> SrtDocs]
    /\ old = files
    /\ cmd = Ran("none", <<>>, 0, NoOptions)
    /\ status = Main("none")
    /\ base = <<>>
    /\ NoTimecode
    /\ NoSubRip

NextSRT ==
    \/ \E word \in FileWords, nfiles \in 1..NumFiles, opts \in ShiftbyOptions :
          Shiftby(word, nfiles, opts)
    \/ \E word \in FileWords, nfiles \in 1..NumFiles, opts \in ShiftOptions :
          Shift(word, nfiles, opts)
    \/ \E word \in FileWords, nfiles \in 1..NumFiles : Merge(word, nfiles)
    \/ \E word \in FileWords, nfiles \in 1..NumFiles, opts \in StretchOptions :
          Stretch(word, nfiles, opts)
    \/ \E word \in FileWords, nfiles \in 1..NumFiles, opts \in SyncOptions :
          Sync(word, nfiles, opts)
    \/ \E word \in FileWords, nfiles \in 1..NumFiles : ReindexFiles(word, nfiles)
    \/ \E word \in FileWords, nfiles \in 1..NumFiles, opts \in ReplaceOptions :
          ReplaceInFiles(word, nfiles, opts)
    \/ \E word \in FileWords : GetoptError(word)
    \/ \E argv \in OtherArgvs : Help(argv)
    \/ \E argv \in OtherArgvs : Version(argv)
    \/ \E argv \in OtherArgvs : Unrecognized(argv)

SpecSRT == InitSRT /\ [][NextSRT]_vars

(***************************************************************************)
(* Properties.                                                             *)
(***************************************************************************)
\* C1: every document parsed from valid text, also after shift_time_by,
\* multiply_time_by, shift_index_by, resize or reindex, is parsed back from
\* its serialization: same number of entries, each with the same index,
\* start, end and text.
C1_RoundTrip ==
    LET again == SubRipInit(SubRipStr(subs))
    IN  again.exc = "none" /\ again.subs = subs

\* C2: for every Timecode of m >= 0 milliseconds, also of 100 hours or more,
\* Timecode(Timecode.stringify(m)) succeeds and has ms = m.
C2_StringifyRoundTrip ==
    (tc.exc = "none" /\ tc.ms >= 0)
        => TimecodeInit(Stringify(tc.ms)) = [exc |-> "none", ms |-> tc.ms]

Unsigned(str) == IF str # <<>> /\ str[1] = "-" THEN Tail(str) ELSE str

SignOf(str) == IF str # <<>> /\ str[1] = "-" THEN -1 ELSE 1

ShortDigits(str) == Len(Unsigned(str)) \in 1..3 /\ AllDigits(Unsigned(str))

\* C3 as claimed: a timestring of 1 to 3 digits (after an optional '-') is a
\* number of whole seconds: ms = sign * int(digits) * 1000.
C3_ShortIsSeconds ==
    (tcop.name = "new" /\ ShortDigits(time))
        => /\ tc.exc = "none"
           /\ tc.ms = SignOf(time) * DigitsVal(Unsigned(time)) * 1000

\* C3 as amended: a timestring of 1 to 3 digits (after an optional '-') is a
\* number of milliseconds, with hours = minutes = seconds = 0:
\* ms = sign * int(digits).
C3_ShortIsMilliseconds ==
    (tcop.name = "new" /\ ShortDigits(time))
        => /\ tc.exc = "none"
           /\ tc.ms = SignOf(time) * DigitsVal(Unsigned(time))

C3_Witness ==
    /\ tcop.name = "new"
    /\ time = <<"-", "9", "8", "7">>
    /\ tc = [exc |-> "none", ms |-> -987]

\* C4: a timestring whose length after an optional '-' is not 12, 9, 6, 5, 1,
\* 2 or 3 (the empty string included) fails with InvalidTimestringException
\* and nothing else.
C4_BadLengthIsInvalidTimestring ==
    (tcop.name = "new" /\ Len(Unsigned(time)) \notin {12, 9, 6, 5, 1, 2, 3})
        => tc.exc = "InvalidTimestringException"

\* sync was run with --target, --goal and --anchor, each a timecode
SyncGiven ==
    /\ cmd.name = "sync"
    /\ \A values \in {cmd.opts.target, cmd.opts.goal, cmd.opts.anchor} :
          OptionTimecode(values).exc = "none" /\ OptionTimecode(values).given

SyncMs(values) == OptionTimecode(values).ms

AllParse(fs, nfiles) == \A i \in 1..nfiles : SubRipInit(fs[i]).exc = "none"

\* C5: sync with target equal to anchor, on files that parse, ends as a usage
\* error does (main returns 2, no exception is left uncaught) and rewrites no
\* file.
C5_DegenerateSyncReported ==
    (/\ SyncGiven
     /\ SyncMs(cmd.opts.target) = SyncMs(cmd.opts.anchor)
     /\ AllParse(old, cmd.nfiles))
        => status = Main("Usage") /\ files = old

Last(s) == s[Len(s)]

\* the offset of the i-th document of a merge: the sum of the (unshifted) ends
\* of the last entries of the documents before it
RECURSIVE MergeOffset(_, _)
MergeOffset(docs, i) ==
    IF i = 1 THEN 0 ELSE MergeOffset(docs, i - 1) + Last(docs[i - 1]).end

\* the number of entries of the documents before the i-th
RECURSIVE EntriesBefore(_, _)
EntriesBefore(docs, i) ==
    IF i = 1 THEN 0 ELSE EntriesBefore(docs, i - 1) + Len(docs[i - 1])

\* C6: merge of D0..Dk (all parsed, k >= 1) prints the concatenation of their
\* entries in order; D0's times are unchanged, the times of Di are increased
\* by the shifted end of the last entry of D(i-1) (the end of D0's last entry
\* for D1); texts are unchanged and the indices are 1..N in sequence.
C6_MergeChains ==
    (cmd.name = "merge" /\ status = Main("none"))
        => LET docs == [i \in 1..cmd.nfiles |-> SubRipInit(files[i]).subs]
           IN  /\ Len(base) = EntriesBefore(docs, cmd.nfiles + 1)
               /\ \A i \in 1..cmd.nfiles : \A j \in 1..Len(docs[i]) :
                     LET at == EntriesBefore(docs, i) + j
                     IN  base[at] =
                            [index |-> at,
                             start |-> docs[i][j].start + MergeOffset(docs, i),
                             end   |-> docs[i][j].end + MergeOffset(docs, i),
                             text  |-> docs[i][j].text]

\* three documents merged, the third shifted further than the second
C6_Witness ==
    /\ cmd.name = "merge"
    /\ status = Main("none")
    /\ cmd.nfiles >= 3
    /\ Len(base) >= 4
    /\ LET docs == [i \in 1..cmd.nfiles |-> SubRipInit(files[i]).subs]
       IN  /\ MergeOffset(docs, 2) > 0
           /\ MergeOffset(docs, 3) > MergeOffset(docs, 2)
           /\ Last(base).end = Last(docs[cmd.nfiles]).end
                                  + MergeOffset(docs, cmd.nfiles)

\* r is the number mant * 2^exp of x, negated when neg, truncated toward zero
IsTruncation(r, x) ==
    /\ (r < 0 => x.neg)
    /\ (r > 0 => ~x.neg)
    /\ IF x.exp >= 0 THEN BigOf(Abs(r)) = BigShl(x.mant, x.exp)
       ELSE /\ ~BigLess(x.mant, BigShl(BigOf(Abs(r)), -x.exp))
            /\ BigLess(x.mant, BigShl(BigOf(Abs(r) + 1), -x.exp))

\* new is what resize makes of the instant t; (t - anchor) * factor is the
\* product of floats
ResizedAbout(new, t, anchor, factor) ==
    /\ t = anchor => new = anchor
    /\ IsTruncation(new - anchor, FloatTimes(t - anchor, factor))

\* C7: after resize(anchor, factor) a start or end that was equal to anchor
\* is still anchor, and every other start or end t is
\* anchor + trunc((t - anchor) * factor), for positive, zero and negative
\* anchors and factors.
C7_ResizeFixesAnchor ==
    call.name = "resize"
        => /\ Len(subs) = Len(prev)
           /\ \A i \in 1..Len(subs) :
                 /\ ResizedAbout(subs[i].start, prev[i].start, call.time, call.factor)
                 /\ ResizedAbout(subs[i].end, prev[i].end, call.time, call.factor)

\* a resize about a non-zero anchor that one entry starts at, while another
\* instant lies before the scaled anchor and is not scaled to a whole number
C7_Witness ==
    /\ call.name = "resize"
    /\ call.time # 0
    /\ \E i \in 1..Len(prev) : prev[i].start = call.time /\ subs[i].start = call.time
    /\ \E i \in 1..Len(prev) :
          \E x \in {FloatTimes(prev[i].start - call.time, call.factor)} :
              x.neg /\ x.exp < 0

\* C8: shift_time_by(t) followed by shift_time_by(-t) restores start and end
\* of every entry and leaves index, text, number and order of the entries
\* unchanged, for positive, zero and negative t.
C8_ShiftInverse ==
    call.name = "shift_time_by"
        => ShiftTimeBy(subs, TimecodeNeg(call.time)) = prev

C8_Witness ==
    /\ call.name = "shift_time_by"
    /\ call.time > 0
    /\ Len(subs) = 2
    /\ subs # prev
    /\ \A i \in 1..Len(subs) : subs[i].start = prev[i].start + call.time

\* C9: sync over several files resizes every file about anchor with the same
\* factor (goal - anchor) / (target - anchor), whatever the anchor.
C9_SyncSameFactor ==
    (/\ SyncGiven
     /\ SyncMs(cmd.opts.target) # SyncMs(cmd.opts.anchor)
     /\ AllParse(old, cmd.nfiles))
        => LET target == SyncMs(cmd.opts.target)
               goal   == SyncMs(cmd.opts.goal)
               anchor == SyncMs(cmd.opts.anchor)
           IN  /\ status = Main("none")
               /\ \A i \in 1..cmd.nfiles :
                     files[i] = SubRipStr(Resize(SubRipInit(old[i]).subs, anchor,
                                    Quotient(goal - anchor, target - anchor)))

\* the product n * x of an integer and a float, not rounded
ExactProduct(n, x) ==
    [neg |-> (n < 0) # x.neg, mant |-> BigMul(BigOf(Abs(n)), x.mant), exp |-> x.exp]

\* C10: multiply_time_by(factor) replaces every start and end by the exact
\* product ms * factor truncated toward zero, for negative products as for
\* positive ones, and changes nothing else.
C10_ExactProductTruncated ==
    call.name = "multiply_time_by"
        => /\ Len(subs) = Len(prev)
           /\ \A i \in 1..Len(subs) :
                 /\ IsTruncation(subs[i].start, ExactProduct(prev[i].start, call.factor))
                 /\ IsTruncation(subs[i].end, ExactProduct(prev[i].end, call.factor))
                 /\ subs[i].index = prev[i].index
                 /\ subs[i].text = prev[i].text

\* C10, amended: multiply_time_by(factor) replaces every start and end by the
\* floating-point product ms * factor, which is the exact product rounded to
\* the nearest float, truncated toward zero, for negative products as for
\* positive ones, and changes nothing else.
C10_MultiplyTruncates ==
    call.name = "multiply_time_by"
        => /\ Len(subs) = Len(prev)
           /\ \A i \in 1..Len(subs) :
                 /\ IsTruncation(subs[i].start, FloatTimes(prev[i].start, call.factor))
                 /\ IsTruncation(subs[i].end, FloatTimes(prev[i].end, call.factor))
                 /\ subs[i].index = prev[i].index
                 /\ subs[i].text = prev[i].text

\* a negative product that is not a whole number and is truncated toward
\* zero, and a product that rounding makes a whole number: 1000 ms times the
\* float nearest to -0.7, which is -700.0
C10_Witness ==
    /\ call.name = "multiply_time_by"
    /\ \E i \in 1..Len(prev) :
          \E x \in {FloatTimes(prev[i].start, call.factor)} :
              x.neg /\ x.exp < 0 /\ subs[i].start = -WholePart(x)
    /\ \E i \in 1..Len(prev) :
          \E x \in {FloatTimes(prev[i].start, call.factor)} :
              /\ x.exp >= 0
              /\ ~IsTruncation(subs[i].start, ExactProduct(prev[i].start, call.factor))

====
